---------------------------- MODULE Spec2Model ----------------------------
(***************************************************************************)
(* Model of the OCR result cache of paddleocr_app (src/cache_manager.py):  *)
(* a disk-backed LRU cache with TTL expiry.  One CacheManager instance is  *)
(* alive at a time on one cache directory; the directory (payload files    *)
(* and cache_index.json) outlives the instance.  Every public method is    *)
(* one action; the methods are built from operators over a record          *)
(*   [cache, files, index]                                                  *)
(* (the OrderedDict, the <key>.pkl files, the index file) that follow the  *)
(* statements of the code in order.  SpecRace follows two instances that   *)
(* are alive together on one directory, file operation by file operation.  *)
(***************************************************************************)
EXTENDS Integers, Sequences, FiniteSets, TLC

(***************************************************************************)
(* Bounds of the model.                                                    *)
(***************************************************************************)
MaxTime == 1
MaxCap == 2
MaxTtl == 1
MaxFaults == 1
MaxRaceCalls == 2
MaxAge == 2
MaxRequests == 2

(***************************************************************************)
(* Inputs.                                                                 *)
(***************************************************************************)
Fingerprints == {"f0", "f1"}

Payloads == {"p1", "p2"}

\* Option names in the order Python's sorted() puts them.
OptionNames == <<"lang", "threshold">>

\* A scalar option value with its Python type.
StrVal(s) == [type |-> "str", v |-> s]
IntVal(n) == [type |-> "int", v |-> n]
FloatVal(n) == [type |-> "float", v |-> n]

LangValues == {StrVal("en"), StrVal("ch")}
ThresholdValues == {IntVal(1), FloatVal(1)}

\* A configuration: a dict in insertion order, as a sequence of <<name, value>>.
Configs ==
  {<<>>}
  \cup {<<<<"lang", l>>>> : l \in LangValues}
  \cup {<<<<"threshold", t>>>> : t \in ThresholdValues}
  \cup {<<<<"lang", l>>, <<"threshold", t>>>> : l \in LangValues, t \in ThresholdValues}
  \cup {<<<<"threshold", t>>, <<"lang", l>>>> : l \in LangValues, t \in ThresholdValues}

\* The (fingerprint, configuration) pairs the cache is called with.
Req(f, c) == [f |-> f, c |-> c]
EnFirst == <<<<"lang", StrVal("en")>>, <<"threshold", IntVal(1)>>>>
ChFirst == <<<<"lang", StrVal("ch")>>, <<"threshold", IntVal(1)>>>>
Requests == {Req("f0", EnFirst), Req("f0", ChFirst), Req("f1", EnFirst)}

\* Construction arguments (enabled, max_size, ttl).
Conf(e, m, t) == [enabled |-> e, max_size |-> m, ttl |-> t]
Confs == {Conf(TRUE, m, t) : m \in 0..MaxCap, t \in 0..MaxTtl}

\* The same with the deployment's toggle off.
AllConfs == Confs \cup {Conf(FALSE, MaxCap, MaxTtl)}

(***************************************************************************)
(* compute_key                                                             *)
(***************************************************************************)
RECURSIVE NameRankFrom(_, _)
NameRankFrom(name, i) ==
  IF i > Len(OptionNames) THEN i
  ELSE IF OptionNames[i] = name THEN i ELSE NameRankFrom(name, i + 1)

NameRank(name) == NameRankFrom(name, 1)

\* Insert one item into a list sorted by option name.
RECURSIVE InsertSorted(_, _)
InsertSorted(item, sorted) ==
  IF sorted = <<>> THEN <<item>>
  ELSE IF NameRank(item[1]) <= NameRank(Head(sorted)[1]) THEN <<item>> \o sorted
  ELSE <<Head(sorted)>> \o InsertSorted(item, Tail(sorted))

\* A faulty variant of SortedItems: the items are left in insertion order.
InsertionOrder(config) == config

\* sorted(config.items()): names are unique, so the names alone decide.
RECURSIVE SortedItems(_)
SortedItems(config) ==
  IF config = <<>> THEN <<>>
  ELSE InsertSorted(Head(config), SortedItems(Tail(config)))

\* json.dumps of a scalar: 1 is "1", 1.0 is "1.0", "en" is "\"en\"".
JsonScalar(val) ==
  CASE val.type = "str" -> <<"quoted", val.v>>
    [] val.type = "int" -> <<"number", val.v, "">>
    [] val.type = "float" -> <<"number", val.v, ".0">>

\* A faulty variant of JsonDumpsItems: the option names alone are serialized.
JsonDumpsNames(items) == [i \in 1..Len(items) |-> <<<<"quoted", items[i][1]>>>>]

\* json.dumps(config_items, sort_keys=True): a list of [name, value] lists.
JsonDumpsItems(items) ==
  [i \in 1..Len(items) |-> <<<<"quoted", items[i][1]>>, JsonScalar(items[i][2])>>]

\* hashlib.sha256(...).hexdigest()[:16], taken as injective.
Sha256Hex16(text) == <<"sha", text>>

compute_key(file_hash, config) ==
  LET config_items == SortedItems(config)
      config_str == JsonDumpsItems(config_items)
      combined == <<file_hash, "_", config_str>>
  IN Sha256Hex16(combined)

\* The key of every request the cache is called with.
KeyTable == [r \in Requests |-> compute_key(r.f, r.c)]

KeyOf(r) == KeyTable[r]

Keys == {KeyOf(r) : r \in Requests}

(***************************************************************************)
(* Storage formats.                                                        *)
(***************************************************************************)
\* datetime.isoformat() and datetime.fromisoformat().
IsoFormat(t) == <<"iso", t>>

FromIsoFormat(text) == text[2]

\* A created_at that datetime.fromisoformat rejects, and the test for one it
\* accepts.
NotIso == <<"junk", 0>>

IsIso(text) == text[1] = "iso"

\* A payload file <key>.pkl: absent, a pickle, or bytes pickle.load rejects.
\* by: the request the pickle was written for (not part of the file).
NoFile == [kind |-> "none", data |-> "-", by |-> <<>>]
Garbage == [kind |-> "garbage", data |-> "-", by |-> <<>>]

PickleDump(result, by) == [kind |-> "pickle", data |-> result, by |-> <<by>>]

PickleLoads(content) == content.data

\* cache_index.json: absent, a JSON object in key order, or unparsable text.
NoIndex == [kind |-> "none", entries |-> <<>>]
GarbageIndex == [kind |-> "garbage", entries |-> <<>>]

JsonDumpIndex(cache) == [kind |-> "json", entries |-> cache]

\* The identity of a request: the fingerprint and the option/value pairs.
ItemSet(config) == {config[i] : i \in 1..Len(config)}

Ident(r) == [f |-> r.f, items |-> ItemSet(r.c)]

(***************************************************************************)
(* The OrderedDict self._cache: a sequence of [key, created_at], least     *)
(* recently used first.                                                    *)
(***************************************************************************)
Entry(key, created_at) == [key |-> key, created_at |-> created_at]

KeysOf(cache) == {cache[i].key : i \in 1..Len(cache)}

Has(cache, key) == key \in KeysOf(cache)

Pos(cache, key) == CHOOSE i \in 1..Len(cache) : cache[i].key = key

Lookup(cache, key) == cache[Pos(cache, key)]

\* del self._cache[key]
DictDel(cache, key) == SelectSeq(cache, LAMBDA e : e.key # key)

\* A faulty variant of DictSet: every entry gets the new entry's created_at.
DictSetTouchesAll(cache, key, metadata) ==
  LET touched == [i \in 1..Len(cache) |->
                    IF cache[i].key = key THEN metadata
                    ELSE [cache[i] EXCEPT !.created_at = metadata.created_at]]
  IN IF Has(cache, key) THEN touched ELSE Append(touched, metadata)

\* self._cache[key] = metadata: a present key keeps its place.
DictSet(cache, key, metadata) ==
  IF Has(cache, key)
  THEN [i \in 1..Len(cache) |-> IF cache[i].key = key THEN metadata ELSE cache[i]]
  ELSE Append(cache, metadata)

\* A faulty variant of MoveToEnd: the entry stays where it is.
StayInPlace(cache, key) == cache

\* self._cache.move_to_end(key)
MoveToEnd(cache, key) == Append(DictDel(cache, key), Lookup(cache, key))

\* A faulty variant of IsExpired: > where the code has >=.
IsExpiredLate(created_at, t, ttl) == t - FromIsoFormat(created_at) > ttl

\* (now - created_at).total_seconds() >= self.ttl
IsExpired(created_at, t, ttl) == t - FromIsoFormat(created_at) >= ttl

(***************************************************************************)
(* The methods, as functions of st = [cache, files, index].                *)
(***************************************************************************)
\* A faulty variant of save_index: the index file is never written.
SaveIndexNever(st, enabled) == st

\* _save_index
save_index(st, enabled) ==
  IF ~enabled THEN st
  ELSE [st EXCEPT !.index = JsonDumpIndex(st.cache)]

\* cache_file.unlink() if cache_file.exists()
Unlink(files, key) == [files EXCEPT ![key] = NoFile]

\* A faulty variant of delete: the payload file is left on disk.
DeleteKeepsFile(st, enabled, key) ==
  save_index([st EXCEPT !.cache = DictDel(st.cache, key)], enabled)

\* A faulty variant of delete: for a key that is not in the index, the least
\* recently used entry goes instead.
DeleteSomeEntry(st, enabled, key) ==
  LET victim == IF Has(st.cache, key) \/ st.cache = <<>> THEN key ELSE Head(st.cache).key
      s1 == [st EXCEPT !.cache = DictDel(st.cache, victim)]
      s2 == [s1 EXCEPT !.files = Unlink(s1.files, victim)]
  IN save_index(s2, enabled)

\* delete(key): no check of self.enabled.
delete(st, enabled, key) ==
  LET s1 == [st EXCEPT !.cache = DictDel(st.cache, key)]
      s2 == [s1 EXCEPT !.files = Unlink(s1.files, key)]
  IN save_index(s2, enabled)

\* A faulty variant of WritePayload: a payload file that exists is left as it is.
WritePayloadIfNew(files, key, result, by) ==
  IF files[key].kind = "none" THEN [files EXCEPT ![key] = PickleDump(result, by)] ELSE files

\* open(cache_file, "wb") and pickle.dump(result, f)
WritePayload(files, key, result, by) == [files EXCEPT ![key] = PickleDump(result, by)]

\* A faulty variant of LoadEntries: each loaded entry becomes the least
\* recently used one.
RECURSIVE LoadToFront(_, _, _, _)
LoadToFront(st, entries, t, ttl) ==
  IF entries = <<>> THEN st
  ELSE LET e == Head(entries)
           s1 == IF ~IsExpired(e.created_at, t, ttl)
                 THEN [st EXCEPT !.cache = <<e>> \o DictDel(st.cache, e.key)]
                 ELSE [st EXCEPT !.files = Unlink(st.files, e.key)]
       IN LoadToFront(s1, Tail(entries), t, ttl)

\* A faulty variant of LoadEntries: every entry is loaded, whatever its age.
LoadWithoutFilter(st, entries, t, ttl) == [st EXCEPT !.cache = entries]

\* A faulty variant of LoadEntries: an entry whose created_at cannot be
\* parsed is skipped and the loop goes on.
RECURSIVE LoadSkipsMalformed(_, _, _, _)
LoadSkipsMalformed(st, entries, t, ttl) ==
  IF entries = <<>> THEN st
  ELSE LET e == Head(entries)
           s1 == IF ~IsIso(e.created_at) THEN st
                 ELSE IF ~IsExpired(e.created_at, t, ttl)
                 THEN [st EXCEPT !.cache = MoveToEnd(DictSet(st.cache, e.key, e), e.key)]
                 ELSE [st EXCEPT !.files = Unlink(st.files, e.key)]
       IN LoadSkipsMalformed(s1, Tail(entries), t, ttl)

\* The loading loop of _load_index over the entries not yet read.  An entry
\* whose created_at cannot be parsed ends the loop in the except clause,
\* which empties self._cache.
RECURSIVE LoadEntries(_, _, _, _)
LoadEntries(st, entries, t, ttl) ==
  IF entries = <<>> THEN st
  ELSE LET e == Head(entries)
           s1 == IF ~IsExpired(e.created_at, t, ttl)
                 THEN [st EXCEPT !.cache = MoveToEnd(DictSet(st.cache, e.key, e), e.key)]
                 ELSE [st EXCEPT !.files = Unlink(st.files, e.key)]
       IN IF ~IsIso(e.created_at) THEN [st EXCEPT !.cache = <<>>]
          ELSE LoadEntries(s1, Tail(entries), t, ttl)

\* _load_index, on the empty OrderedDict of __init__.
load_index(st, conf, t) ==
  LET s0 == [st EXCEPT !.cache = <<>>]
  IN IF ~conf.enabled \/ st.index.kind = "none" THEN s0
     ELSE IF st.index.kind = "garbage" THEN s0
     ELSE LoadEntries(s0, st.index.entries, t, conf.ttl)

\* A faulty variant of EvictLoop: the most recently used entry is the victim.
RECURSIVE EvictNewest(_, _, _, _)
EvictNewest(st, max_size, evicted, sizes) ==
  IF ~(Len(st.cache) >= max_size)
  THEN [st |-> st, raised |-> FALSE, evicted |-> evicted, sizes |-> sizes]
  ELSE IF st.cache = <<>>
  THEN [st |-> st, raised |-> TRUE, evicted |-> evicted, sizes |-> sizes]
  ELSE LET newest_key == st.cache[Len(st.cache)].key
           s1 == delete(st, TRUE, newest_key)
       IN EvictNewest(s1, max_size, Append(evicted, newest_key), Append(sizes, Len(s1.cache)))

\* The eviction loop of set.  raised: next(iter({})) raised StopIteration.
\* evicted: the keys deleted, in order; sizes: len(self._cache) after each step.
RECURSIVE EvictLoop(_, _, _, _)
EvictLoop(st, max_size, evicted, sizes) ==
  IF ~(Len(st.cache) >= max_size)
  THEN [st |-> st, raised |-> FALSE, evicted |-> evicted, sizes |-> sizes]
  ELSE IF st.cache = <<>>
  THEN [st |-> st, raised |-> TRUE, evicted |-> evicted, sizes |-> sizes]
  ELSE LET oldest_key == Head(st.cache).key
           s1 == delete(st, TRUE, oldest_key)
       IN EvictLoop(s1, max_size, Append(evicted, oldest_key), Append(sizes, Len(s1.cache)))

\* A faulty variant of set: a key that is in the index is updated without
\* the eviction loop.
SetUpdatesInPlace(st, conf, r, result, t) ==
  IF ~conf.enabled
  THEN [st |-> st, res |-> "ok", evicted |-> <<>>, sizes |-> <<Len(st.cache)>>]
  ELSE LET key == KeyOf(r)
           ev == IF Has(st.cache, key)
                 THEN [st |-> st, raised |-> FALSE, evicted |-> <<>>, sizes |-> <<Len(st.cache)>>]
                 ELSE EvictLoop(st, conf.max_size, <<>>, <<Len(st.cache)>>)
       IN IF ev.raised
          THEN [st |-> ev.st, res |-> "raised", evicted |-> ev.evicted, sizes |-> ev.sizes]
          ELSE LET s1 == [ev.st EXCEPT !.files = WritePayload(ev.st.files, key, result, Ident(r))]
                   metadata == Entry(key, IsoFormat(t))
                   s2 == [s1 EXCEPT !.cache = MoveToEnd(DictSet(s1.cache, key, metadata), key)]
               IN [st |-> save_index(s2, TRUE), res |-> "ok", evicted |-> ev.evicted,
                   sizes |-> Append(ev.sizes, Len(s2.cache))]

\* A faulty variant of set: the index entry is added without writing the payload.
SetWithoutPayload(st, conf, r, result, t) ==
  IF ~conf.enabled
  THEN [st |-> st, res |-> "ok", evicted |-> <<>>, sizes |-> <<Len(st.cache)>>]
  ELSE LET key == KeyOf(r)
           ev == EvictLoop(st, conf.max_size, <<>>, <<Len(st.cache)>>)
       IN IF ev.raised
          THEN [st |-> ev.st, res |-> "raised", evicted |-> ev.evicted, sizes |-> ev.sizes]
          ELSE LET metadata == Entry(key, IsoFormat(t))
                   s2 == [ev.st EXCEPT !.cache = MoveToEnd(DictSet(ev.st.cache, key, metadata), key)]
               IN [st |-> save_index(s2, TRUE), res |-> "ok", evicted |-> ev.evicted,
                   sizes |-> Append(ev.sizes, Len(s2.cache))]

\* set
set(st, conf, r, result, t) ==
  IF ~conf.enabled
  THEN [st |-> st, res |-> "ok", evicted |-> <<>>, sizes |-> <<Len(st.cache)>>]
  ELSE LET key == KeyOf(r)
           ev == EvictLoop(st, conf.max_size, <<>>, <<Len(st.cache)>>)
       IN IF ev.raised
          THEN [st |-> ev.st, res |-> "raised", evicted |-> ev.evicted, sizes |-> ev.sizes]
          ELSE LET s1 == [ev.st EXCEPT !.files = WritePayload(ev.st.files, key, result, Ident(r))]
                   metadata == Entry(key, IsoFormat(t))
                   s2 == [s1 EXCEPT !.cache = MoveToEnd(DictSet(s1.cache, key, metadata), key)]
               IN [st |-> save_index(s2, TRUE), res |-> "ok", evicted |-> ev.evicted,
                   sizes |-> Append(ev.sizes, Len(s2.cache))]

\* The states the eviction loop of set goes through: after the del, the
\* unlink and the _save_index of each delete.
RECURSIVE EvictSteps(_, _)
EvictSteps(st, max_size) ==
  IF ~(Len(st.cache) >= max_size) \/ st.cache = <<>> THEN <<>>
  ELSE LET oldest_key == Head(st.cache).key
           s1 == [st EXCEPT !.cache = DictDel(st.cache, oldest_key)]
           s2 == [s1 EXCEPT !.files = Unlink(s1.files, oldest_key)]
           s3 == save_index(s2, TRUE)
       IN <<s1, s2, s3>> \o EvictSteps(s3, max_size)

\* A faulty variant of SetSteps: the index entry is added and persisted
\* before the payload is written.
SetStepsIndexFirst(st, conf, r, result, t) ==
  IF ~conf.enabled THEN <<st>>
  ELSE LET key == KeyOf(r)
           ev == <<st>> \o EvictSteps(st, conf.max_size)
           s0 == ev[Len(ev)]
       IN IF Len(s0.cache) >= conf.max_size THEN ev
          ELSE LET inserted == [s0 EXCEPT !.cache = DictSet(s0.cache, key, Entry(key, IsoFormat(t)))]
                   moved == [inserted EXCEPT !.cache = MoveToEnd(inserted.cache, key)]
                   saved == save_index(moved, TRUE)
                   opened == [saved EXCEPT !.files[key] = Garbage]
                   dumped == [saved EXCEPT !.files = WritePayload(saved.files, key, result, Ident(r))]
               IN ev \o <<inserted, moved, saved, opened, dumped>>

\* The states set goes through, statement by statement, when nothing fails:
\* the eviction loop, open(cache_file, "wb") (an empty file), pickle.dump,
\* self._cache[key] = metadata, move_to_end, _save_index.  The loop's
\* StopIteration ends the call where it is.
SetSteps(st, conf, r, result, t) ==
  IF ~conf.enabled THEN <<st>>
  ELSE LET key == KeyOf(r)
           ev == <<st>> \o EvictSteps(st, conf.max_size)
           s0 == ev[Len(ev)]
       IN IF Len(s0.cache) >= conf.max_size THEN ev
          ELSE LET opened == [s0 EXCEPT !.files[key] = Garbage]
                   dumped == [s0 EXCEPT !.files = WritePayload(s0.files, key, result, Ident(r))]
                   inserted == [dumped EXCEPT !.cache = DictSet(dumped.cache, key, Entry(key, IsoFormat(t)))]
                   moved == [inserted EXCEPT !.cache = MoveToEnd(inserted.cache, key)]
                   saved == save_index(moved, TRUE)
               IN ev \o <<opened, dumped, inserted, moved, saved>>

\* What get returns on a miss: None.
Miss(st, why) == [st |-> st, res |-> "miss", why |-> why, val |-> "-", by |-> <<>>]

\* A faulty variant of get: an entry whose payload cannot be loaded is left in
\* the index.
GetWithoutPurge(st, conf, r, t) ==
  LET key == KeyOf(r)
  IN IF ~conf.enabled THEN Miss(st, "disabled")
     ELSE IF ~Has(st.cache, key) THEN Miss(st, "absent")
     ELSE IF IsExpired(Lookup(st.cache, key).created_at, t, conf.ttl)
          THEN Miss(delete(st, TRUE, key), "expired")
     ELSE IF st.files[key].kind = "none" THEN Miss(st, "missing")
     ELSE IF st.files[key].kind = "garbage" THEN Miss(st, "unreadable")
     ELSE [st |-> [st EXCEPT !.cache = MoveToEnd(st.cache, key)],
           res |-> "hit", why |-> "-",
           val |-> PickleLoads(st.files[key]), by |-> st.files[key].by]

\* A faulty variant of get: a hit writes the index file.
GetPersistsHit(st, conf, r, t) ==
  LET key == KeyOf(r)
  IN IF ~conf.enabled THEN Miss(st, "disabled")
     ELSE IF ~Has(st.cache, key) THEN Miss(st, "absent")
     ELSE IF IsExpired(Lookup(st.cache, key).created_at, t, conf.ttl)
          THEN Miss(delete(st, TRUE, key), "expired")
     ELSE IF st.files[key].kind = "none" THEN Miss(delete(st, TRUE, key), "missing")
     ELSE IF st.files[key].kind = "garbage" THEN Miss(delete(st, TRUE, key), "unreadable")
     ELSE [st |-> save_index([st EXCEPT !.cache = MoveToEnd(st.cache, key)], TRUE),
           res |-> "hit", why |-> "-",
           val |-> PickleLoads(st.files[key]), by |-> st.files[key].by]

\* A faulty variant of get: a hit sets the entry's created_at to the time of
\* the hit.
GetRefreshesTtl(st, conf, r, t) ==
  LET key == KeyOf(r)
  IN IF ~conf.enabled THEN Miss(st, "disabled")
     ELSE IF ~Has(st.cache, key) THEN Miss(st, "absent")
     ELSE IF IsExpired(Lookup(st.cache, key).created_at, t, conf.ttl)
          THEN Miss(delete(st, TRUE, key), "expired")
     ELSE IF st.files[key].kind = "none" THEN Miss(delete(st, TRUE, key), "missing")
     ELSE IF st.files[key].kind = "garbage" THEN Miss(delete(st, TRUE, key), "unreadable")
     ELSE [st |-> [st EXCEPT !.cache =
                     MoveToEnd(DictSet(st.cache, key, Entry(key, IsoFormat(t))), key)],
           res |-> "hit", why |-> "-",
           val |-> PickleLoads(st.files[key]), by |-> st.files[key].by]

\* A faulty variant of get: every call also removes the other entries that
\* have expired.
GetSweepsExpired(st, conf, r, t) ==
  LET key == KeyOf(r)
      fresh == SelectSeq(st.cache, LAMBDA e : e.key = key \/ ~IsExpired(e.created_at, t, conf.ttl))
      swept == [st EXCEPT !.cache = fresh]
  IN IF ~conf.enabled THEN Miss(st, "disabled")
     ELSE IF ~Has(swept.cache, key) THEN Miss(swept, "absent")
     ELSE IF IsExpired(Lookup(swept.cache, key).created_at, t, conf.ttl)
          THEN Miss(delete(swept, TRUE, key), "expired")
     ELSE IF swept.files[key].kind = "none" THEN Miss(delete(swept, TRUE, key), "missing")
     ELSE IF swept.files[key].kind = "garbage" THEN Miss(delete(swept, TRUE, key), "unreadable")
     ELSE [st |-> [swept EXCEPT !.cache = MoveToEnd(swept.cache, key)],
           res |-> "hit", why |-> "-",
           val |-> PickleLoads(swept.files[key]), by |-> swept.files[key].by]

get(st, conf, r, t) ==
  LET key == KeyOf(r)
  IN IF ~conf.enabled THEN Miss(st, "disabled")
     ELSE IF ~Has(st.cache, key) THEN Miss(st, "absent")
     ELSE IF IsExpired(Lookup(st.cache, key).created_at, t, conf.ttl)
          THEN Miss(delete(st, TRUE, key), "expired")
     ELSE IF st.files[key].kind = "none" THEN Miss(delete(st, TRUE, key), "missing")
     ELSE IF st.files[key].kind = "garbage" THEN Miss(delete(st, TRUE, key), "unreadable")
     ELSE [st |-> [st EXCEPT !.cache = MoveToEnd(st.cache, key)],
           res |-> "hit", why |-> "-",
           val |-> PickleLoads(st.files[key]), by |-> st.files[key].by]

\* A faulty variant of clear: the index file is left on disk.
ClearKeepsIndex(st, enabled) ==
  IF ~enabled THEN st
  ELSE [cache |-> <<>>, files |-> [k \in DOMAIN st.files |-> NoFile], index |-> st.index]

\* clear
clear(st, enabled) ==
  IF ~enabled THEN st
  ELSE [cache |-> <<>>, files |-> [k \in DOMAIN st.files |-> NoFile], index |-> NoIndex]

\* get_stats()["items"]; -1 stands for the {"enabled": False} answer.
get_stats(st, enabled) == IF enabled THEN Len(st.cache) ELSE -1

(***************************************************************************)
(* The methods when a storage operation fails.  fault names the kind of    *)
(* operation that fails for the length of one call: "unlink"               *)
(* (cache_file.unlink), "payload_open" and "payload_dump" (open(.., "wb")  *)
(* and pickle.dump, the second after the file was truncated),              *)
(* "payload_read" (open(.., "rb") or pickle.load), "index_open" and        *)
(* "index_dump" (open(.., "w") and json.dump of _save_index),              *)
(* "index_read" (open or json.load of _load_index), "stat" (f.stat());     *)
(* "stop": the process ends inside delete, after the unlink.  res is       *)
(* "raised" when the exception leaves the method, why is its type.         *)
(***************************************************************************)
Faults ==
  {"none", "unlink", "payload_open", "payload_dump", "payload_read",
   "index_open", "index_dump", "index_read", "stat", "stop"}

\* _save_index: the except clause absorbs the failure.
save_index_f(st, enabled, fault) ==
  IF ~enabled \/ fault = "index_open" THEN st
  ELSE IF fault = "index_dump" THEN [st EXCEPT !.index = GarbageIndex]
  ELSE [st EXCEPT !.index = JsonDumpIndex(st.cache)]

\* delete: the unlink is not inside a try.
delete_f(st, enabled, key, fault) ==
  LET s1 == [st EXCEPT !.cache = DictDel(st.cache, key)]
      s2 == [s1 EXCEPT !.files = Unlink(s1.files, key)]
  IN IF st.files[key].kind # "none" /\ fault = "unlink"
     THEN [st |-> s1, res |-> "raised", why |-> "OSError"]
     ELSE IF fault = "stop"
     THEN [st |-> s2, res |-> "stopped", why |-> "-"]
     ELSE [st |-> save_index_f(s2, enabled, fault), res |-> "ok", why |-> "-"]

\* The eviction loop of set: delete is called outside the try.
RECURSIVE EvictLoop_f(_, _, _, _)
EvictLoop_f(st, max_size, sizes, fault) ==
  IF ~(Len(st.cache) >= max_size)
  THEN [st |-> st, res |-> "ok", why |-> "-", sizes |-> sizes]
  ELSE IF st.cache = <<>>
  THEN [st |-> st, res |-> "raised", why |-> "StopIteration", sizes |-> sizes]
  ELSE LET d == delete_f(st, TRUE, Head(st.cache).key, fault)
       IN IF d.res # "ok"
          THEN [st |-> d.st, res |-> d.res, why |-> d.why, sizes |-> sizes]
          ELSE EvictLoop_f(d.st, max_size, Append(sizes, Len(d.st.cache)), fault)

\* set: the try covers the payload write, the index update and _save_index.
set_f(st, conf, r, result, t, fault) ==
  IF ~conf.enabled
  THEN [st |-> st, res |-> "ok", why |-> "-", sizes |-> <<Len(st.cache)>>]
  ELSE LET key == KeyOf(r)
           ev == EvictLoop_f(st, conf.max_size, <<Len(st.cache)>>, fault)
       IN IF ev.res # "ok" THEN ev
          ELSE IF fault = "payload_open"
          THEN [st |-> ev.st, res |-> "ok", why |-> "logged", sizes |-> ev.sizes]
          ELSE IF fault = "payload_dump"
          THEN [st |-> [ev.st EXCEPT !.files[key] = Garbage],
                res |-> "ok", why |-> "logged", sizes |-> ev.sizes]
          ELSE LET s1 == [ev.st EXCEPT !.files = WritePayload(ev.st.files, key, result, Ident(r))]
                   metadata == Entry(key, IsoFormat(t))
                   s2 == [s1 EXCEPT !.cache = MoveToEnd(DictSet(s1.cache, key, metadata), key)]
               IN [st |-> save_index_f(s2, TRUE, fault), res |-> "ok", why |-> "-",
                   sizes |-> Append(ev.sizes, Len(s2.cache))]

\* What get returns when it called delete: None, unless delete raised.
MissAfter(d, why) ==
  IF d.res = "ok" THEN Miss(d.st, why)
  ELSE [st |-> d.st, res |-> d.res, why |-> d.why, val |-> "-", by |-> <<>>]

\* get: delete is called outside the try (expired, missing) or from the
\* except clause (unreadable).
get_f(st, conf, r, t, fault) ==
  LET key == KeyOf(r)
  IN IF ~conf.enabled THEN Miss(st, "disabled")
     ELSE IF ~Has(st.cache, key) THEN Miss(st, "absent")
     ELSE IF IsExpired(Lookup(st.cache, key).created_at, t, conf.ttl)
          THEN MissAfter(delete_f(st, TRUE, key, fault), "expired")
     ELSE IF st.files[key].kind = "none"
          THEN MissAfter(delete_f(st, TRUE, key, fault), "missing")
     ELSE IF st.files[key].kind = "garbage" \/ fault = "payload_read"
          THEN MissAfter(delete_f(st, TRUE, key, fault), "unreadable")
     ELSE [st |-> [st EXCEPT !.cache = MoveToEnd(st.cache, key)],
           res |-> "hit", why |-> "-",
           val |-> PickleLoads(st.files[key]), by |-> st.files[key].by]

\* clear: the unlinks are not inside a try; the first one fails.
clear_f(st, enabled, fault) ==
  IF ~enabled THEN [st |-> st, res |-> "ok", why |-> "-"]
  ELSE IF fault = "unlink" /\ \E k \in DOMAIN st.files : st.files[k].kind # "none"
  THEN [st |-> st, res |-> "raised", why |-> "OSError"]
  ELSE LET s1 == [st EXCEPT !.files = [k \in DOMAIN st.files |-> NoFile], !.cache = <<>>]
       IN IF fault = "unlink" /\ st.index.kind # "none"
          THEN [st |-> s1, res |-> "raised", why |-> "OSError"]
          ELSE [st |-> [s1 EXCEPT !.index = NoIndex], res |-> "ok", why |-> "-"]

\* get_stats: f.stat() is not inside a try.
get_stats_f(st, enabled, fault) ==
  IF enabled /\ fault = "stat" /\ \E k \in DOMAIN st.files : st.files[k].kind # "none"
  THEN [items |-> -1, res |-> "raised", why |-> "OSError"]
  ELSE [items |-> get_stats(st, enabled), res |-> "ok", why |-> "-"]

\* The loading loop with failing unlinks: the first one ends the loop.
RECURSIVE LoadEntries_f(_, _, _, _, _)
LoadEntries_f(st, entries, t, ttl, fault) ==
  IF entries = <<>> THEN st
  ELSE LET e == Head(entries)
       IN IF ~IsIso(e.created_at) THEN [st EXCEPT !.cache = <<>>]
          ELSE IF ~IsExpired(e.created_at, t, ttl)
          THEN LoadEntries_f([st EXCEPT !.cache = MoveToEnd(DictSet(st.cache, e.key, e), e.key)],
                             Tail(entries), t, ttl, fault)
          ELSE IF fault = "unlink" /\ st.files[e.key].kind # "none"
          THEN [st EXCEPT !.cache = <<>>]
          ELSE LoadEntries_f([st EXCEPT !.files = Unlink(st.files, e.key)],
                             Tail(entries), t, ttl, fault)

\* _load_index: the except clause empties self._cache.
load_index_f(st, conf, t, fault) ==
  LET s0 == [st EXCEPT !.cache = <<>>]
  IN IF ~conf.enabled \/ st.index.kind = "none" THEN s0
     ELSE IF st.index.kind = "garbage" \/ fault = "index_read" THEN s0
     ELSE LoadEntries_f(s0, st.index.entries, t, conf.ttl, fault)

(***************************************************************************)
(* State.                                                                  *)
(***************************************************************************)
VARIABLES
  up,         \* a CacheManager instance exists
  conf,       \* its enabled, max_size, ttl
  cache,      \* its self._cache
  dirExists,  \* the cache directory exists
  files,      \* the payload files of the directory, by key
  index,      \* cache_index.json
  now,        \* the clock, in seconds
  last,       \* the last step taken: the call, its arguments and what it returned
  keyArgs,    \* two inputs of compute_key
  keyOut,     \* the keys computed for them
  faults,     \* the calls so far during which storage failed
  procs,      \* two instances on one directory: each one's _cache and where it is in a call
  inodes,     \* the contents of the payload files they open, chunk by chunk
  path,       \* the inode <key>.pkl names for them (0: no such file)
  handlers,   \* the server's requests: each one's arguments and where its handler is
  running     \* the request whose handler the event loop is running (0: none)

cacheVars == <<up, conf, cache, dirExists, files, index, now>>

keyVars == <<keyArgs, keyOut>>

raceVars == <<procs, inodes, path>>

serverVars == <<handlers, running>>

vars ==
  <<up, conf, cache, dirExists, files, index, now, last, keyArgs, keyOut, faults,
    procs, inodes, path, handlers, running>>

St == [cache |-> cache, files |-> files, index |-> index]

NoConf == Conf(FALSE, 0, 0)

\* The record of a step.  req, key, arg: the call's arguments.  res, why, val,
\* by: what get returned (why: the log line of a miss).  items: get_stats()'s
\* items, and for clear the entries before it.  had: for set and delete,
\* whether the key was present.  sizes: for set, len(self._cache) after each step.  justSet: for
\* get, the payload the call directly before set under this key.  wasLru: for
\* a get that hits, whether the entry was the least recently used of several.
\* fault: the storage operation that failed during the call, if one could.
\* chunks: for a get followed read by read, what pickle.load read.
Call(op) ==
  [op |-> op, req |-> <<>>, key |-> <<>>, arg |-> "-", res |-> "-", why |-> "-",
   val |-> "-", by |-> <<>>, items |-> -1, had |-> FALSE, sizes |-> <<>>,
   justSet |-> "-", wasLru |-> FALSE, fault |-> "-", chunks |-> <<>>]

NoKeyArgs == <<>>

\* The instances that share a directory, and one of them between two calls.
Procs == {1, 2}

Idle(c, n) == [cache |-> c, pc |-> "idle", arg |-> "-", h |-> 0, off |-> 0, buf |-> <<>>, calls |-> n]

\* The requests a server process gets, and one that has not arrived.  kind:
\* the endpoint; req, use_cache: the upload's (hash, config) and the query
\* flag; pc: the handler's next statement; waiting: suspended at an await;
\* cached: cached_result ("-": None); result: response_data.
Handlers == 1..MaxRequests

NoHandler ==
  [kind |-> "-", req |-> <<>>, use_cache |-> FALSE, pc |-> "none", waiting |-> FALSE,
   cached |-> "-", result |-> "-"]

Init ==
  /\ up = FALSE
  /\ conf = NoConf
  /\ cache = <<>>
  /\ dirExists = FALSE
  /\ files = [k \in Keys |-> NoFile]
  /\ index = NoIndex
  /\ now = 0
  /\ last = Call("none")
  /\ keyArgs = NoKeyArgs
  /\ keyOut = <<>>
  /\ faults = 0
  /\ procs = [p \in Procs |-> Idle(<<>>, 0)]
  /\ inodes = <<>>
  /\ path = 0
  /\ handlers = [h \in Handlers |-> NoHandler]
  /\ running = 0

Become(st) ==
  /\ cache' = st.cache
  /\ files' = st.files
  /\ index' = st.index

(***************************************************************************)
(* Actions: one per public method, plus the clock and the process's exit.  *)
(***************************************************************************)
\* CacheManager(cache_dir, max_size, ttl, enabled)
Construct(cf) ==
  /\ ~up
  /\ up' = TRUE
  /\ conf' = cf
  /\ dirExists' = (dirExists \/ cf.enabled)
  /\ Become(load_index(St, cf, now))
  /\ last' = Call("construct")
  /\ UNCHANGED <<now, keyVars, faults, raceVars, serverVars>>

\* The process ends: the instance and its memory are gone, the directory stays.
Exit ==
  /\ up
  /\ up' = FALSE
  /\ conf' = NoConf
  /\ cache' = <<>>
  /\ last' = Call("exit")
  /\ UNCHANGED <<dirExists, files, index, now, keyVars, faults, raceVars, serverVars>>

Tick ==
  /\ now < MaxTime
  /\ now' = now + 1
  /\ last' = Call("tick")
  /\ UNCHANGED <<up, conf, cache, dirExists, files, index, keyVars, faults, raceVars, serverVars>>

CallGet(r) ==
  /\ up
  /\ LET out == get(St, conf, r, now)
         key == KeyOf(r)
     IN /\ Become(out.st)
        /\ last' = [Call("get") EXCEPT
                      !.req = <<r>>, !.key = <<key>>, !.res = out.res, !.why = out.why,
                      !.val = out.val, !.by = out.by,
                      !.justSet = IF last.op = "set" /\ last.key = <<key>> THEN last.arg ELSE "-",
                      !.wasLru = (out.res = "hit" /\ Len(cache) >= 2 /\ Head(cache).key = key)]
  /\ UNCHANGED <<up, conf, dirExists, now, keyVars, faults, raceVars, serverVars>>

CallSet(r, result) ==
  /\ up
  /\ LET out == set(St, conf, r, result, now)
         key == KeyOf(r)
     IN /\ Become(out.st)
        /\ last' = [Call("set") EXCEPT
                      !.req = <<r>>, !.key = <<key>>, !.arg = result, !.res = out.res,
                      !.had = Has(cache, key), !.sizes = out.sizes]
  /\ UNCHANGED <<up, conf, dirExists, now, keyVars, faults, raceVars, serverVars>>

CallDelete(key) ==
  /\ up
  /\ Become(delete(St, conf.enabled, key))
  /\ last' = [Call("delete") EXCEPT !.key = <<key>>, !.had = Has(cache, key)]
  /\ UNCHANGED <<up, conf, dirExists, now, keyVars, faults, raceVars, serverVars>>

CallClear ==
  /\ up
  /\ Become(clear(St, conf.enabled))
  /\ last' = [Call("clear") EXCEPT !.items = Len(cache)]
  /\ UNCHANGED <<up, conf, dirExists, now, keyVars, faults, raceVars, serverVars>>

CallStats ==
  /\ up
  /\ last' = [Call("get_stats") EXCEPT !.items = get_stats(St, conf.enabled)]
  /\ UNCHANGED <<cacheVars, keyVars, faults, raceVars, serverVars>>

\* The public methods, called one at a time.
Calls ==
  \/ \E r \in Requests : CallGet(r)
  \/ \E r \in Requests, result \in Payloads : CallSet(r, result)
  \/ \E key \in Keys : CallDelete(key)
  \/ CallClear
  \/ CallStats

\* An enabled cache: processes that come and go on one cache directory.
Next ==
  \/ \E cf \in Confs : Construct(cf)
  \/ Exit
  \/ Tick
  \/ Calls

Spec == Init /\ [][Next]_vars

\* The same, with processes that run with caching disabled among them.
NextToggle ==
  \/ \E cf \in AllConfs : Construct(cf)
  \/ Exit
  \/ Tick
  \/ Calls

SpecToggle == Init /\ [][NextToggle]_vars

\* One instance, constructed on the empty directory, and nothing else.
NextOne ==
  \/ \E cf \in Confs : Construct(cf)
  \/ Tick
  \/ Calls

SpecOne == Init /\ [][NextOne]_vars

\* The calls again, each with a kind of storage operation that fails while it
\* runs ("none": nothing fails).
LoadFaults == {"none", "index_read", "unlink"}
GetFaults == {"none", "payload_read", "unlink", "index_open", "index_dump", "stop"}
SetFaults == {"none", "payload_open", "payload_dump", "unlink", "index_open", "index_dump", "stop"}
DeleteFaults == {"none", "unlink", "index_open", "index_dump", "stop"}
ClearFaults == {"none", "unlink"}
StatsFaults == {"none", "stat"}

\* At most MaxFaults calls meet a failure.
Failing(fault) ==
  /\ fault # "none" => faults < MaxFaults
  /\ faults' = IF fault = "none" THEN faults ELSE faults + 1

\* How a call leaves the instance: as it was, or gone when the process stopped.
Return(out) ==
  /\ files' = out.st.files
  /\ index' = out.st.index
  /\ IF out.res = "stopped"
     THEN up' = FALSE /\ conf' = NoConf /\ cache' = <<>>
     ELSE cache' = out.st.cache /\ UNCHANGED <<up, conf>>

FaultyConstruct(cf, fault) ==
  /\ ~up
  /\ Failing(fault)
  /\ up' = TRUE
  /\ conf' = cf
  /\ dirExists' = (dirExists \/ cf.enabled)
  /\ Become(load_index_f(St, cf, now, fault))
  /\ last' = [Call("construct") EXCEPT !.res = "ok", !.fault = fault]
  /\ UNCHANGED <<now, keyVars, raceVars, serverVars>>

FaultyGet(r, fault) ==
  /\ up
  /\ Failing(fault)
  /\ LET out == get_f(St, conf, r, now, fault)
     IN /\ Return(out)
        /\ last' = [Call("get") EXCEPT
                      !.req = <<r>>, !.key = <<KeyOf(r)>>, !.res = out.res, !.why = out.why,
                      !.val = out.val, !.by = out.by, !.fault = fault]
  /\ UNCHANGED <<dirExists, now, keyVars, raceVars, serverVars>>

FaultySet(r, result, fault) ==
  /\ up
  /\ Failing(fault)
  /\ LET out == set_f(St, conf, r, result, now, fault)
     IN /\ Return(out)
        /\ last' = [Call("set") EXCEPT
                      !.req = <<r>>, !.key = <<KeyOf(r)>>, !.arg = result, !.res = out.res,
                      !.why = out.why, !.had = Has(cache, KeyOf(r)), !.sizes = out.sizes,
                      !.fault = fault]
  /\ UNCHANGED <<dirExists, now, keyVars, raceVars, serverVars>>

FaultyDelete(key, fault) ==
  /\ up
  /\ Failing(fault)
  /\ LET out == delete_f(St, conf.enabled, key, fault)
     IN /\ Return(out)
        /\ last' = [Call("delete") EXCEPT
                      !.key = <<key>>, !.res = out.res, !.why = out.why, !.fault = fault]
  /\ UNCHANGED <<dirExists, now, keyVars, raceVars, serverVars>>

FaultyClear(fault) ==
  /\ up
  /\ Failing(fault)
  /\ LET out == clear_f(St, conf.enabled, fault)
     IN /\ Return(out)
        /\ last' = [Call("clear") EXCEPT
                      !.items = Len(cache), !.res = out.res, !.why = out.why, !.fault = fault]
  /\ UNCHANGED <<dirExists, now, keyVars, raceVars, serverVars>>

FaultyStats(fault) ==
  /\ up
  /\ Failing(fault)
  /\ LET out == get_stats_f(St, conf.enabled, fault)
     IN last' = [Call("get_stats") EXCEPT
                   !.items = out.items, !.res = out.res, !.why = out.why, !.fault = fault]
  /\ UNCHANGED <<cacheVars, keyVars, raceVars, serverVars>>

\* Processes that come and go on one directory whose storage fails at times.
NextFault ==
  \/ \E cf \in Confs, fault \in LoadFaults : FaultyConstruct(cf, fault)
  \/ Exit
  \/ \E r \in Requests, fault \in GetFaults : FaultyGet(r, fault)
  \/ \E r \in Requests, result \in Payloads, fault \in SetFaults : FaultySet(r, result, fault)
  \/ \E key \in Keys, fault \in DeleteFaults : FaultyDelete(key, fault)
  \/ \E fault \in ClearFaults : FaultyClear(fault)
  \/ \E fault \in StatsFaults : FaultyStats(fault)

SpecFault == Init /\ [][NextFault]_vars

(***************************************************************************)
(* Two instances on one cache directory, with no lock between them.  A     *)
(* call is followed through its file operations: set opens <key>.pkl for   *)
(* writing (creating or truncating it), pickle.dump writes the payload in  *)
(* PayloadChunks writes, then the entry and the index are stored; get      *)
(* looks the key up in the instance's own _cache, opens the file, and      *)
(* pickle.load reads it in PayloadChunks reads.  A file is an inode that   *)
(* stays alive after an unlink for whoever holds it open.  A chunk is      *)
(* named by the payload whose dump wrote it.  Both instances were started  *)
(* with RaceConf on the empty directory and use the one key RaceKey, so    *)
(* the eviction loop of set never runs and no entry expires.               *)
(***************************************************************************)
PayloadChunks == 2

RaceConf == Conf(TRUE, MaxCap, MaxTtl)

RaceReq == Req("f0", EnFirst)

RaceKey == KeyOf(RaceReq)

\* f.write(chunk) at offset off; a write past the end leaves a hole before it.
WriteAt(content, off, chunk) ==
  [i \in 1..(IF off < Len(content) THEN Len(content) ELSE off + 1) |->
     IF i = off + 1 THEN chunk
     ELSE IF i <= Len(content) THEN content[i]
     ELSE "hole"]

\* f.read at offset off.
ReadAt(content, off) == IF off < Len(content) THEN content[off + 1] ELSE "eof"

\* What pickle.load read is the dump of one payload.
IsDumpOf(buf, result) == buf = [i \in 1..PayloadChunks |-> result]

\* What pickle.load read is made of chunks of several dumps.
IsTorn(buf) ==
  /\ \A i \in 1..Len(buf) : buf[i] \in Payloads
  /\ \A result \in Payloads : ~IsDumpOf(buf, result)

raceRest == <<up, conf, cache, dirExists, files, now, keyVars, faults, serverVars>>

\* delete(key) by instance p, as the last step of its call; the call returns None.
RaceDelete(p, why) ==
  LET left == DictDel(procs[p].cache, RaceKey)
  IN /\ procs' = [procs EXCEPT ![p] = Idle(left, procs[p].calls + 1)]
     /\ path' = 0
     /\ index' = JsonDumpIndex(left)
     /\ last' = [Call("get") EXCEPT
                   !.req = <<RaceReq>>, !.key = <<RaceKey>>, !.res = "miss", !.why = why]
     /\ UNCHANGED inodes

\* set, up to open(cache_file, "wb").
RaceSetOpen(p, result) ==
  /\ procs[p].pc = "idle"
  /\ procs[p].calls < MaxRaceCalls
  /\ Len(procs[p].cache) < RaceConf.max_size
  /\ IF path = 0
     THEN inodes' = Append(inodes, <<>>) /\ path' = Len(inodes) + 1
     ELSE inodes' = [inodes EXCEPT ![path] = <<>>] /\ UNCHANGED path
  /\ procs' = [procs EXCEPT ![p] =
                 [@ EXCEPT !.pc = "dump", !.arg = result, !.h = path', !.off = 0]]
  /\ UNCHANGED <<raceRest, index, last>>

\* One write of pickle.dump(result, f); the last one is followed by the close.
RaceSetWrite(p) ==
  /\ procs[p].pc = "dump"
  /\ inodes' = [inodes EXCEPT ![procs[p].h] = WriteAt(@, procs[p].off, procs[p].arg)]
  /\ procs' = [procs EXCEPT ![p] =
                 [@ EXCEPT !.off = @ + 1,
                           !.pc = IF procs[p].off + 1 = PayloadChunks THEN "store" ELSE "dump"]]
  /\ UNCHANGED <<raceRest, index, last, path>>

\* set, from self._cache[key] = metadata to the end.
RaceSetStore(p) ==
  /\ procs[p].pc = "store"
  /\ LET stored == MoveToEnd(DictSet(procs[p].cache, RaceKey,
                                     Entry(RaceKey, IsoFormat(now))), RaceKey)
     IN /\ procs' = [procs EXCEPT ![p] = Idle(stored, procs[p].calls + 1)]
        /\ index' = JsonDumpIndex(stored)
        /\ last' = [Call("set") EXCEPT
                      !.req = <<RaceReq>>, !.key = <<RaceKey>>, !.arg = procs[p].arg]
  /\ UNCHANGED <<raceRest, inodes, path>>

\* get, up to open(cache_file, "rb"), or to the end where it does not open the file.
RaceGetOpen(p) ==
  /\ procs[p].pc = "idle"
  /\ procs[p].calls < MaxRaceCalls
  /\ IF ~Has(procs[p].cache, RaceKey)
     THEN /\ procs' = [procs EXCEPT ![p] = Idle(procs[p].cache, procs[p].calls + 1)]
          /\ last' = [Call("get") EXCEPT
                        !.req = <<RaceReq>>, !.key = <<RaceKey>>,
                        !.res = "miss", !.why = "absent"]
          /\ UNCHANGED <<index, inodes, path>>
     ELSE IF IsExpired(Lookup(procs[p].cache, RaceKey).created_at, now, RaceConf.ttl)
     THEN RaceDelete(p, "expired")
     ELSE IF path = 0
     THEN RaceDelete(p, "missing")
     ELSE /\ procs' = [procs EXCEPT ![p] =
                         [@ EXCEPT !.pc = "load", !.h = path, !.off = 0, !.buf = <<>>]]
          /\ UNCHANGED <<index, last, inodes, path>>
  /\ UNCHANGED raceRest

\* One read of pickle.load(f).
RaceGetRead(p) ==
  /\ procs[p].pc = "load"
  /\ procs' = [procs EXCEPT ![p] =
                 [@ EXCEPT !.buf = Append(@, ReadAt(inodes[procs[p].h], procs[p].off)),
                           !.off = @ + 1,
                           !.pc = IF procs[p].off + 1 = PayloadChunks THEN "loaded" ELSE "load"]]
  /\ UNCHANGED <<raceRest, index, last, inodes, path>>

\* get, from the return of pickle.load to the end.  Chunks of one dump give
\* its payload; chunks of several dumps are bytes no dump produced, which
\* pickle.load may reject or may decode (parses); anything else it rejects.
RaceGetReturn(p, parses) ==
  /\ procs[p].pc = "loaded"
  /\ LET buf == procs[p].buf
     IN IF (\E result \in Payloads : IsDumpOf(buf, result)) \/ (IsTorn(buf) /\ parses)
        THEN /\ procs' = [procs EXCEPT ![p] =
                            Idle(MoveToEnd(procs[p].cache, RaceKey), procs[p].calls + 1)]
             /\ last' = [Call("get") EXCEPT
                           !.req = <<RaceReq>>, !.key = <<RaceKey>>, !.res = "hit",
                           !.val = IF IsTorn(buf) THEN "torn" ELSE buf[1],
                           !.chunks = buf]
             /\ UNCHANGED <<index, inodes, path>>
        ELSE RaceDelete(p, "unreadable")
  /\ UNCHANGED raceRest

NextRace ==
  \/ \E p \in Procs, result \in Payloads : RaceSetOpen(p, result)
  \/ \E p \in Procs : RaceSetWrite(p)
  \/ \E p \in Procs : RaceSetStore(p)
  \/ \E p \in Procs : RaceGetOpen(p)
  \/ \E p \in Procs : RaceGetRead(p)
  \/ \E p \in Procs, parses \in BOOLEAN : RaceGetReturn(p, parses)

SpecRace == Init /\ [][NextRace]_vars

\* One instance whose payload writes may fail.
PutFaults == {"payload_open", "payload_dump"}

NextPut ==
  \/ \E cf \in Confs : Construct(cf)
  \/ Calls
  \/ \E r \in Requests, result \in Payloads, fault \in PutFaults : FaultySet(r, result, fault)

SpecPut == Init /\ [][NextPut]_vars

\* Something outside the cache removes a payload file, or damages it.
ExternalUnlink(key) ==
  /\ files[key].kind # "none"
  /\ files' = Unlink(files, key)
  /\ last' = Call("external")
  /\ UNCHANGED <<up, conf, cache, dirExists, index, now, keyVars, faults, raceVars, serverVars>>

ExternalDamage(key) ==
  /\ files[key].kind = "pickle"
  /\ files' = [files EXCEPT ![key] = Garbage]
  /\ last' = Call("external")
  /\ UNCHANGED <<up, conf, cache, dirExists, index, now, keyVars, faults, raceVars, serverVars>>

\* One process on the directory, and the outside world, at one instant (what
\* the passing of time does to an entry is followed under Spec).
NextExt ==
  \/ \E cf \in Confs : Construct(cf)
  \/ Calls
  \/ \E key \in Keys : ExternalUnlink(key)
  \/ \E key \in Keys : ExternalDamage(key)

SpecExt == Init /\ [][NextExt]_vars

\* Something outside the cache damages the index file between two processes:
\* the whole of it (no JSON any more) or the created_at of one entry.
ExternalIndexDamage ==
  /\ ~up
  /\ index.kind = "json"
  /\ faults < MaxFaults
  /\ faults' = faults + 1
  /\ index' = GarbageIndex
  /\ last' = Call("external")
  /\ UNCHANGED <<up, conf, cache, dirExists, files, now, keyVars, raceVars, serverVars>>

ExternalEntryDamage(i) ==
  /\ ~up
  /\ index.kind = "json"
  /\ i \in 1..Len(index.entries)
  /\ IsIso(index.entries[i].created_at)
  /\ faults < MaxFaults
  /\ faults' = faults + 1
  /\ index' = [index EXCEPT !.entries[i].created_at = NotIso]
  /\ last' = Call("external")
  /\ UNCHANGED <<up, conf, cache, dirExists, files, now, keyVars, raceVars, serverVars>>

\* Processes that come and go on a directory whose index file gets damaged,
\* at most MaxFaults times, at one instant.
NextIndex ==
  \/ \E cf \in Confs : Construct(cf)
  \/ Exit
  \/ Calls
  \/ ExternalIndexDamage
  \/ \E i \in 1..MaxCap : ExternalEntryDamage(i)

SpecIndex == Init /\ [][NextIndex]_vars

\* One instance whose entries live for MaxAge ticks, followed until they
\* have expired: an entry can be hit at an age above 0.
AgeConfs == {Conf(TRUE, m, MaxAge) : m \in 1..MaxCap}

TickAge ==
  /\ now < MaxAge
  /\ now' = now + 1
  /\ last' = Call("tick")
  /\ UNCHANGED <<up, conf, cache, dirExists, files, index, keyVars, faults, raceVars, serverVars>>

NextAge ==
  \/ \E cf \in AgeConfs : Construct(cf)
  \/ TickAge
  \/ Calls

SpecAge == Init /\ [][NextAge]_vars

(***************************************************************************)
(* The API server (src/api_server.py): one process, one event loop, one    *)
(* module-level CacheManager.  Every endpoint is a coroutine; the loop     *)
(* runs one handler at a time and takes up another only when the running   *)
(* one is suspended at an await or has returned.  A handler is followed    *)
(* statement by statement.  max_size and ttl stand for MAX_CACHE_SIZE and  *)
(* CACHE_TTL.                                                              *)
(***************************************************************************)
ServerConf == Conf(TRUE, MaxCap, MaxTtl)

serverRest == <<up, conf, dirExists, now, keyVars, faults, raceVars>>

\* A request for /ocr/process arrives: the handler runs to
\* `content = await file.read()` and is suspended there.
Arrive(h, r, use_cache) ==
  /\ up /\ running = 0
  /\ handlers[h].pc = "none"
  /\ handlers' = [handlers EXCEPT ![h] =
                    [NoHandler EXCEPT !.kind = "process", !.req = <<r>>,
                                      !.use_cache = use_cache, !.pc = "read", !.waiting = TRUE]]
  /\ UNCHANGED <<serverRest, cache, files, index, last, running>>

\* The event loop, with no handler running, takes up a suspended one.
Resume(h) ==
  /\ running = 0
  /\ handlers[h].waiting
  /\ running' = h
  /\ handlers' = [handlers EXCEPT ![h].waiting = FALSE]
  /\ UNCHANGED <<serverRest, cache, files, index, last>>

\* f.write(content); file_hash = compute_file_hash(file_path)
SaveUpload(h) ==
  /\ running = h
  /\ handlers[h].pc = "read"
  /\ handlers' = [handlers EXCEPT ![h].pc = "get"]
  /\ UNCHANGED <<serverRest, cache, files, index, last, running>>

\* if use_cache: cached_result = cache_manager.get(...); if cached_result:
\* return the cached response.
CheckCache(h) ==
  /\ running = h
  /\ handlers[h].pc = "get"
  /\ LET r == handlers[h].req[1]
         out == IF handlers[h].use_cache THEN get(St, conf, r, now) ELSE Miss(St, "skipped")
     IN /\ Become(out.st)
        /\ last' = IF handlers[h].use_cache
                   THEN [Call("get") EXCEPT
                           !.req = <<r>>, !.key = <<KeyOf(r)>>, !.res = out.res,
                           !.why = out.why, !.val = out.val, !.by = out.by]
                   ELSE last
        /\ IF out.res = "hit"
           THEN /\ handlers' = [handlers EXCEPT ![h].pc = "done", ![h].cached = out.val]
                /\ running' = 0
           ELSE /\ handlers' = [handlers EXCEPT ![h].pc = "recognize"]
                /\ UNCHANGED running
  /\ UNCHANGED serverRest

\* A faulty variant of Recognize: the recognition is awaited, so the handler
\* is suspended until it is done.
RecognizeAwaited(h, result, ok) ==
  /\ running = h
  /\ handlers[h].pc = "recognize"
  /\ running' = 0
  /\ handlers' = IF ok
                 THEN [handlers EXCEPT ![h].pc = "set", ![h].result = result, ![h].waiting = TRUE]
                 ELSE [handlers EXCEPT ![h].pc = "done"]
  /\ UNCHANGED <<serverRest, cache, files, index, last>>

\* From DocumentProcessor() to response_data: plain calls, no await.  An
\* exception (ok = FALSE) goes to the except clause and the handler ends
\* with HTTPException.
Recognize(h, result, ok) ==
  /\ running = h
  /\ handlers[h].pc = "recognize"
  /\ IF ok
     THEN /\ handlers' = [handlers EXCEPT ![h].pc = "set", ![h].result = result]
          /\ UNCHANGED running
     ELSE /\ handlers' = [handlers EXCEPT ![h].pc = "done"]
          /\ running' = 0
  /\ UNCHANGED <<serverRest, cache, files, index, last>>

\* if use_cache: cache_manager.set(file_hash, config.dict(), response_data);
\* return OCRResponse(**response_data)
StoreResult(h) ==
  /\ running = h
  /\ handlers[h].pc = "set"
  /\ LET r == handlers[h].req[1]
         out == set(St, conf, r, handlers[h].result, now)
     IN IF handlers[h].use_cache
        THEN /\ Become(out.st)
             /\ last' = [Call("set") EXCEPT
                           !.req = <<r>>, !.key = <<KeyOf(r)>>, !.arg = handlers[h].result,
                           !.res = out.res, !.had = Has(cache, KeyOf(r)), !.sizes = out.sizes]
        ELSE UNCHANGED <<cache, files, index, last>>
  /\ handlers' = [handlers EXCEPT ![h].pc = "done"]
  /\ running' = 0
  /\ UNCHANGED serverRest

\* POST /cache/clear: cache_manager.clear(), no await.
ClearCache(h) ==
  /\ up /\ running = 0
  /\ handlers[h].pc = "none"
  /\ Become(clear(St, conf.enabled))
  /\ last' = [Call("clear") EXCEPT !.items = Len(cache)]
  /\ handlers' = [handlers EXCEPT ![h] = [NoHandler EXCEPT !.kind = "clear", !.pc = "done"]]
  /\ UNCHANGED <<serverRest, running>>

\* GET /cache/stats: cache_manager.get_stats(), no await.
CacheStats(h) ==
  /\ up /\ running = 0
  /\ handlers[h].pc = "none"
  /\ last' = [Call("get_stats") EXCEPT !.items = get_stats(St, conf.enabled)]
  /\ handlers' = [handlers EXCEPT ![h] = [NoHandler EXCEPT !.kind = "stats", !.pc = "done"]]
  /\ UNCHANGED <<serverRest, cache, files, index, running>>

NextServer ==
  \/ Construct(ServerConf)
  \/ \E h \in Handlers, r \in Requests, use_cache \in BOOLEAN : Arrive(h, r, use_cache)
  \/ \E h \in Handlers : Resume(h)
  \/ \E h \in Handlers : SaveUpload(h)
  \/ \E h \in Handlers : CheckCache(h)
  \/ \E h \in Handlers, result \in Payloads, ok \in BOOLEAN : Recognize(h, result, ok)
  \/ \E h \in Handlers : StoreResult(h)
  \/ \E h \in Handlers : ClearCache(h)
  \/ \E h \in Handlers : CacheStats(h)

SpecServer == Init /\ [][NextServer]_vars

\* compute_key alone, on two inputs drawn at the start.
KeyInputs == [f : Fingerprints, c : Configs]

InitKey ==
  /\ up = TRUE
  /\ conf \in AllConfs
  /\ cache = <<>>
  /\ dirExists = conf.enabled
  /\ files = [k \in Keys |-> NoFile]
  /\ index = NoIndex
  /\ now = 0
  /\ last = Call("construct")
  /\ keyArgs \in [1..2 -> KeyInputs]
  /\ keyOut = <<>>
  /\ faults = 0
  /\ procs = [p \in Procs |-> Idle(<<>>, 0)]
  /\ inodes = <<>>
  /\ path = 0
  /\ handlers = [h \in Handlers |-> NoHandler]
  /\ running = 0

CallComputeKey ==
  /\ Len(keyOut) < Len(keyArgs)
  /\ keyOut' = Append(keyOut, compute_key(keyArgs[Len(keyOut) + 1].f, keyArgs[Len(keyOut) + 1].c))
  /\ last' = Call("compute_key")
  /\ UNCHANGED <<cacheVars, keyArgs, faults, raceVars, serverVars>>

NextKey == CallComputeKey

SpecKey == InitKey /\ [][NextKey]_vars

(***************************************************************************)
(* Properties.                                                             *)
(***************************************************************************)
\* The key and the request of the step recorded in a call record.
KeyIn(c) == c.key[1]

ReqIn(c) == c.req[1]

\* Some request that addresses the key.
ReqOfKey == [key \in Keys |-> CHOOSE r \in Requests : KeyOf(r) = key]

ReqFor(key) == ReqOfKey[key]

\* What get(f, c) would answer in state st.
Answer(st, cf, key, t) == get(st, cf, ReqFor(key), t)

StAfter == [cache |-> cache', files |-> files', index |-> index']

\* C1: on an enabled cache with max_size >= 1 and ttl > 0, a get that directly
\* follows set(f, c, p) under the same key hits and returns p, whatever the
\* cache held before (the key present or not, the cache full or not).
C1_RoundTrip ==
  (up /\ conf.enabled /\ conf.max_size >= 1 /\ conf.ttl > 0
      /\ last.op = "get" /\ last.justSet # "-")
    => (last.res = "hit" /\ last.val = last.justSet)

\* C1's case: the get follows a set that overwrote a present key in a full cache.
C1_Witness ==
  /\ up /\ conf.enabled /\ conf.max_size >= 2 /\ conf.ttl > 0
  /\ last.op = "get" /\ last.justSet = "p2" /\ last.res = "hit"
  /\ Len(cache) = conf.max_size
  /\ now > FromIsoFormat(cache[1].created_at)

\* C2: an enabled cache never holds more than max_size entries: not after
\* construction from whatever index is on disk, not after any call, and not
\* between the steps of set.
C2_Capacity ==
  (up /\ conf.enabled)
    => /\ Len(cache) <= conf.max_size
       /\ last.op = "set" => \A i \in 1..Len(last.sizes) : last.sizes[i] <= conf.max_size


\* The entries other than key's, in order.
Others(c, key) == SelectSeq(c, LAMBDA e : e.key # key)

\* key answers a hit now, and still does after the step, with the same payload.
StillHits(key) ==
  Answer(St, conf, key, now).res = "hit"
    => /\ Answer(StAfter, conf, key, now).res = "hit"
       /\ Answer(StAfter, conf, key, now).val = Answer(St, conf, key, now).val

\* A set of a key that is not in the index, which holds max_size entries.
SetsNewKeyWhenFull ==
  /\ up /\ conf.enabled /\ conf.max_size >= 1
  /\ last'.op = "set"
  /\ Len(cache) = conf.max_size
  /\ ~Has(cache, KeyIn(last'))

C3_Step ==
  SetsNewKeyWhenFull
    => LET lru == Head(cache).key
       IN /\ last'.res = "ok"
          /\ KeysOf(cache') = (KeysOf(cache) \ {lru}) \cup {KeyIn(last')}
          /\ Len(cache') = conf.max_size
          /\ files'[lru].kind = "none"
          /\ Answer(StAfter, conf, lru, now).res = "miss"
          /\ conf.ttl > 0 => Answer(StAfter, conf, KeyIn(last'), now).res = "hit"
          /\ \A k \in KeysOf(cache) \ {lru} :
               /\ Lookup(cache', k) = Lookup(cache, k)
               /\ StillHits(k)

\* C3: a set of a new key into an index that holds max_size entries
\* (max_size >= 1) removes exactly one entry, the least recently used one (the
\* head of the order), with its payload; every other entry stays as it was and
\* still hits if it did; the evicted key misses and the new one hits (ttl > 0).
C3_LruEviction == [][C3_Step]_vars

\* C3's case: a full index of two entries took a new key and lost its head.
C3_Witness ==
  /\ up /\ conf.enabled /\ conf.max_size = 2
  /\ last.op = "set" /\ ~last.had /\ last.sizes = <<2, 1, 2>>

\* A hit moves the entry to the most recently used end and changes nothing else.
C4_HitStep ==
  (last'.op = "get" /\ last'.res = "hit")
    => LET k == KeyIn(last')
       IN /\ Len(cache') = Len(cache)
          /\ cache'[Len(cache')] = Lookup(cache, k)
          /\ Others(cache', k) = Others(cache, k)

\* No call reorders the entries it does not touch.
C4_OrderStep ==
  (up /\ up' /\ last'.op \in {"get", "set", "delete", "clear", "get_stats"})
    => \A a, b \in KeysOf(cache) \cap KeysOf(cache') :
         (last'.key # <<a>> /\ last'.key # <<b>> /\ Pos(cache, a) < Pos(cache, b))
           => Pos(cache', a) < Pos(cache', b)

\* The entry just hit outlives the next insertion into the full index.
C4_SurvivesStep ==
  (/\ last.op = "get" /\ last.res = "hit"
   /\ SetsNewKeyWhenFull /\ conf.max_size >= 2)
    => /\ ~Has(cache', Head(cache).key)
       /\ Head(cache).key # KeyIn(last)
       /\ Has(cache', KeyIn(last))
       /\ StillHits(KeyIn(last))

\* C4: a get that hits moves the entry to the most recently used position and
\* leaves the order of the others alone, as does every other call; so with
\* max_size >= 2 the entry just hit is not the one the next insertion evicts
\* (max_size = 2: set k0, set k1, get k0, set k2 evicts k1, and k0 still hits).
C4_AccessRefreshes == [][C4_HitStep /\ C4_OrderStep /\ C4_SurvivesStep]_vars

\* C4's case: a hit took the least recently used of two entries to the most
\* recently used end.
C4_Witness ==
  /\ up /\ conf.enabled /\ conf.max_size = 2
  /\ last.op = "get" /\ last.res = "hit" /\ last.wasLru
  /\ Len(cache) = 2 /\ <<cache[2].key>> = last.key

C5_Step ==
  (up /\ conf.enabled /\ last'.op = "get" /\ Has(cache, KeyIn(last')))
    => LET k == KeyIn(last')
           age == now - FromIsoFormat(Lookup(cache, k).created_at)
       IN /\ age >= conf.ttl
               => /\ last'.res = "miss"
                  /\ ~Has(cache', k)
                  /\ files'[k].kind = "none"
          /\ (age < conf.ttl /\ files[k].kind = "pickle")
               => /\ last'.res = "hit"
                  /\ last'.val = files[k].data
                  /\ Has(cache', k)
                  /\ files'[k] = files[k]

\* C5: a get of an entry whose age (now - created_at) is >= ttl reports a miss
\* and removes the entry and its payload; a get of an entry with age < ttl
\* and an intact payload hits with that payload and keeps both.
C5_TtlExpiry == [][C5_Step]_vars

\* C5's case: an entry was found expired at exactly age = ttl > 0.
C5_Witness ==
  /\ up /\ conf.enabled /\ conf.ttl >= 1
  /\ last.op = "get" /\ last.why = "expired"
  /\ ~Has(cache, KeyIn(last))


\* C6: compute_key gives one key to a fingerprint with two configurations
\* that hold the same option/value pairs, whatever their insertion order, and
\* computing it changes nothing of the cache.
C6_KeyDeterminism ==
  /\ [](\A i, j \in 1..Len(keyOut) :
          (keyArgs[i].f = keyArgs[j].f /\ ItemSet(keyArgs[i].c) = ItemSet(keyArgs[j].c))
            => keyOut[i] = keyOut[j])
  /\ [][last'.op = "compute_key" => UNCHANGED cacheVars]_vars

\* C6's case: two configurations with the same two pairs in opposite orders
\* got their keys.
C6_Witness ==
  /\ Len(keyOut) = 2
  /\ Len(keyArgs[1].c) = 2
  /\ keyArgs[1].f = keyArgs[2].f
  /\ keyArgs[1].c # keyArgs[2].c
  /\ ItemSet(keyArgs[1].c) = ItemSet(keyArgs[2].c)

\* A payload returned by get was written for the request get was called with.
C7_OwnPayload ==
  (last.op = "get" /\ last.res = "hit") => last.by = <<Ident(ReqIn(last))>>

\* Requests that differ in the fingerprint or in a configuration value have
\* different keys.
C7_Discriminates ==
  \A r1, r2 \in Requests : Ident(r1) # Ident(r2) => KeyOf(r1) # KeyOf(r2)

\* Two sets in a row for different requests leave two entries, each with the
\* payload of its own request.
C7_Step ==
  (/\ up /\ conf.enabled /\ conf.max_size >= 2 /\ conf.ttl > 0
   /\ last.op = "set" /\ last'.op = "set"
   /\ Ident(ReqIn(last)) # Ident(ReqIn(last')))
    => LET k1 == KeyIn(last)
           k2 == KeyIn(last')
           a1 == get(StAfter, conf, ReqIn(last), now)
           a2 == get(StAfter, conf, ReqIn(last'), now)
       IN /\ k1 # k2
          /\ Has(cache', k1) /\ Has(cache', k2)
          /\ a1.res = "hit" /\ a1.val = last.arg
          /\ a2.res = "hit" /\ a2.val = last'.arg

\* C7: requests that differ in the fingerprint or in a configuration value get
\* different keys (the digest being injective): sets under both make two
\* entries, and a get returns the payload stored for its own fingerprint and
\* configuration, never another's.
C7_KeyDiscrimination == [](C7_OwnPayload /\ C7_Discriminates) /\ [][C7_Step]_vars

\* C7's case: a hit while the same fingerprint under another configuration
\* holds a different payload.
C7_Witness ==
  /\ last.op = "get" /\ last.res = "hit"
  /\ \E k \in Keys :
       /\ k # KeyIn(last)
       /\ Has(cache, k)
       /\ files[k].kind = "pickle"
       /\ files[k].by[1].f = ReqIn(last).f
       /\ files[k].data # last.val

\* C8: after clear() on an enabled cache the index is empty (get_stats items
\* is 0), no payload file and no index file is left, and get misses for every
\* request, in this process and in any that starts on the directory next.
C8_ClearEmpties ==
  (up /\ conf.enabled /\ last.op = "clear")
    => /\ cache = <<>>
       /\ get_stats(St, conf.enabled) = 0
       /\ \A k \in Keys : files[k].kind = "none"
       /\ index.kind = "none"
       /\ \A r \in Requests : get(St, conf, r, now).res = "miss"
       /\ \A cf \in Confs :
            LET st == load_index(St, cf, now)
            IN /\ st.cache = <<>>
               /\ \A r \in Requests : get(st, cf, r, now).res = "miss"

\* C8's case: the cache that was cleared held two entries.
C8_Witness ==
  /\ up /\ conf.enabled
  /\ last.op = "clear" /\ last.items = 2

\* A step of a process that runs with caching disabled.
C9_Step ==
  (up' /\ ~conf'.enabled
       /\ last'.op \in {"construct", "get", "set", "delete", "clear", "get_stats"})
    => /\ files' = files
       /\ index' = index
       /\ dirExists' = dirExists
       /\ cache' = <<>>
       /\ last'.op = "get" => last'.res = "miss"

\* C9: with enabled = False no operation (construction, get, set, delete,
\* clear, get_stats) creates, writes or deletes a file, the in-memory index
\* stays empty, and get misses.
C9_DisabledNoOp == [][C9_Step]_vars

\* A get of an unexpired entry whose payload file is missing or unreadable.
C10_Step ==
  (/\ up /\ conf.enabled /\ last'.op = "get"
   /\ Has(cache, KeyIn(last'))
   /\ now - FromIsoFormat(Lookup(cache, KeyIn(last')).created_at) < conf.ttl
   /\ files[KeyIn(last')].kind # "pickle")
    => LET k == KeyIn(last')
       IN /\ last'.res = "miss"
          /\ ~Has(cache', k)
          /\ cache' = Others(cache, k)
          /\ get_stats(StAfter, TRUE) = get_stats(St, TRUE) - 1
          /\ index'.kind = "json"
          /\ index'.entries = cache'
          /\ \A j \in Keys \ {k} : files'[j] = files[j]

\* C10: a get of an entry whose payload file is missing or unreadable reports
\* a miss and removes the entry from the in-memory and the persisted index, so
\* get_stats items drops by one; no other entry or payload changes.
C10_SelfHeals == [][C10_Step]_vars

\* C10's case: a get found the payload file gone while another entry stayed.
C10_Witness ==
  /\ up /\ conf.enabled
  /\ last.op = "get" /\ last.why = "missing"
  /\ Len(cache) = 1
  /\ index.entries = cache

\* The keys listed in the index file.
PersistedKeys(ix) == {ix.entries[i].key : i \in 1..Len(ix.entries)}

C12_Step ==
  (/\ up /\ conf.enabled /\ conf.max_size >= 1
   /\ last'.op = "set"
   /\ last'.fault \in {"payload_open", "payload_dump", "index_open", "index_dump"})
    => /\ last'.res # "raised"
       /\ KeysOf(cache') = KeysOf(cache)
       /\ PersistedKeys(index') = PersistedKeys(index)
       /\ \A r \in Requests :
            LET before == get(St, conf, r, now)
                after == get(StAfter, conf, r, now)
            IN before.res = "hit" => (after.res = "hit" /\ after.val = before.val)
       /\ (\A k \in KeysOf(cache) : files[k].kind = "pickle")
            => \A k \in KeysOf(cache') : files'[k].kind = "pickle"

C12_FailedPutNoOp == [][C12_Step]_vars

\* C13: no call raises to its caller because a storage operation failed.
C13_NeverPropagates ==
  (last.fault \in Faults \ {"none", "stop"})
    => ~(last.res = "raised" /\ last.why = "OSError")

\* The entries of an index, without their order.
EntrySet(c) == {c[i] : i \in 1..Len(c)}

\* C14: whenever an enabled instance holds no expired entry, a new instance
\* constructed now on the same directory with the same max_size and ttl has
\* the same keys with the same created_at, and get answers every request as
\* the old instance would.
C14_SurvivesRestart ==
  (/\ up /\ conf.enabled /\ last.res # "raised"
   /\ \A i \in 1..Len(cache) : ~IsExpired(cache[i].created_at, now, conf.ttl))
    => LET new == load_index(St, conf, now)
       IN /\ EntrySet(new.cache) = EntrySet(cache)
          /\ \A r \in Requests :
               LET a == get(new, conf, r, now)
                   b == get(St, conf, r, now)
               IN a.res = b.res /\ a.val = b.val

\* C14's case: an instance was constructed on a directory that held two
\* entries, and both hit.
C14_Witness ==
  /\ up /\ conf.enabled /\ last.op = "construct"
  /\ Len(cache) = 2
  /\ \A i \in 1..2 : Answer(St, conf, cache[i].key, now).res = "hit"

\* C16: delete(key) of a key that is not in the index leaves the entries and
\* every other key's payload file as they were, and a second delete(key)
\* right after any delete(key) changes nothing (no call raises: there is no
\* raise in delete but the unlink's).
C16_Step ==
  (up /\ last'.op = "delete")
    => LET k == KeyIn(last')
       IN /\ last'.res # "raised"
          /\ ~Has(cache, k)
               => /\ cache' = cache
                  /\ \A j \in Keys \ {k} : files'[j] = files[j]
          /\ delete(StAfter, conf.enabled, k) = StAfter

C16_DeleteIdempotent == [][C16_Step]_vars

\* C16's case: a delete of a key that was not in an index that holds entries.
C16_Witness ==
  /\ up /\ conf.enabled
  /\ last.op = "delete" /\ ~last.had
  /\ Len(cache) >= 1

\* The entry of key has the payload and the created_at it had before the step.
SameEntry(key) ==
  /\ Lookup(cache', key).created_at = Lookup(cache, key).created_at
  /\ files'[key] = files[key]

\* C19 as stated: while an entry stays in the index, no get, set, delete of
\* another key or get_stats changes its payload or its created_at.
C19_Step ==
  (up /\ conf.enabled /\ last'.op \in {"get", "set", "delete", "get_stats"})
    => \A k \in KeysOf(cache) \cap KeysOf(cache') : SameEntry(k)

C19_Immutable == [][C19_Step]_vars

\* C19, amended: while an entry stays in the index, no get, get_stats, or set
\* or delete of another key changes its payload or its created_at, and the
\* entries a call does not address keep their order; a set of the entry's own
\* key replaces its payload and its created_at.
C19_AmendedStep ==
  (up /\ conf.enabled /\ last'.op \in {"get", "set", "delete", "get_stats"})
    => /\ \A k \in KeysOf(cache) \cap KeysOf(cache') :
            ~(last'.op = "set" /\ last'.key = <<k>>) => SameEntry(k)
       /\ last'.op \in {"get", "set", "delete"}
            => Others(cache', KeyIn(last')) = Others(SelectSeq(cache, LAMBDA e : Has(cache', e.key)), KeyIn(last'))
       /\ (last'.op = "set" /\ last'.res = "ok")
            => /\ files'[KeyIn(last')].data = last'.arg
               /\ Lookup(cache', KeyIn(last')).created_at = IsoFormat(now)

C19_ImmutableButSet == [][C19_AmendedStep]_vars

\* C19's case: a set of another key at a later time left an older entry in
\* the index.
C19_Witness ==
  /\ up /\ conf.enabled
  /\ last.op = "set" /\ ~last.had
  /\ Len(cache) = 2
  /\ FromIsoFormat(cache[1].created_at) < FromIsoFormat(cache[2].created_at)
  /\ files[cache[1].key].kind = "pickle"

\* C20: the construction of an enabled instance on a readable index file
\* leaves every listed entry of age >= ttl out of the in-memory index and
\* deletes its payload file; it loads every listed entry of age < ttl with
\* its metadata as persisted and leaves its payload file alone; nothing else
\* is loaded and no other payload file changes.
C20_Step ==
  (last'.op = "construct" /\ conf'.enabled /\ index.kind = "json")
    => /\ \A i \in 1..Len(index.entries) :
            LET e == index.entries[i]
            IN IF now - FromIsoFormat(e.created_at) >= conf'.ttl
               THEN ~Has(cache', e.key) /\ files'[e.key].kind = "none"
               ELSE /\ Has(cache', e.key)
                    /\ Lookup(cache', e.key) = e
                    /\ files'[e.key] = files[e.key]
       /\ KeysOf(cache') \subseteq PersistedKeys(index)
       /\ \A k \in Keys \ PersistedKeys(index) : files'[k] = files[k]

C20_LoadFiltersExpired == [][C20_Step]_vars

\* C20's case: a construction loaded one entry and left an expired one out.
C20_Witness ==
  /\ up /\ conf.enabled /\ conf.ttl > 0
  /\ last.op = "construct"
  /\ Len(cache) = 1 /\ Len(index.entries) = 2
  /\ files[cache[1].key].kind = "pickle"
  /\ \E k \in PersistedKeys(index) \ KeysOf(cache) : files[k].kind = "none"

\* The entry of key is gone from memory, from the index file and from the
\* payload files; or it is in all three.
Gone(st, key) ==
  /\ ~Has(st.cache, key)
  /\ key \notin PersistedKeys(st.index)
  /\ st.files[key].kind = "none"

Whole(st, key) ==
  /\ Has(st.cache, key)
  /\ key \in PersistedKeys(st.index)
  /\ st.files[key].kind = "pickle"

\* C15: a delete, an expiry deletion in get or an eviction in set, also one in
\* which the unlink or the index write fails or the process stops, leaves each
\* entry that was whole either gone from all three places or whole (the entry
\* a set writes aside), and a whole unexpired one hits, also after a restart.
C15_Step ==
  (up /\ conf.enabled /\ last'.op \in {"delete", "get", "set"})
    => \A k \in Keys :
         (Whole(St, k) /\ ~(last'.op = "set" /\ last'.key = <<k>>))
           => \/ Gone(StAfter, k)
              \/ /\ Whole(StAfter, k)
                 /\ ~IsExpired(Lookup(cache', k).created_at, now, conf.ttl)
                      => /\ Answer(StAfter, conf, k, now).res = "hit"
                         /\ Answer(load_index(StAfter, conf, now), conf, k, now).res = "hit"

C15_NoPartialEviction == [][C15_Step]_vars

\* C18: whenever an enabled instance is up, the directory holds at most
\* max_size payload files.
C18_DiskBounded ==
  (up /\ conf.enabled)
    => Cardinality({k \in Keys : files[k].kind # "none"}) <= conf.max_size


\* C17: two instances share the directory without a lock; a get that hits
\* returns a payload that one set wrote in full: what pickle.load read is the
\* dump of one payload, never chunks of several dumps.
C17_HitIsOneDump ==
  (last.op = "get" /\ last.res = "hit" /\ last.chunks # <<>>)
    => \E result \in Payloads : IsDumpOf(last.chunks, result)

\* The entries of a persisted index that are younger than ttl at time t.
Unexpired(ix, t, ttl) ==
  SelectSeq(ix.entries, LAMBDA e : t - FromIsoFormat(e.created_at) < ttl)

\* C21: construction on a readable index file gives the in-memory order of
\* the file's unexpired entries, in the file's order.
C21_LoadStep ==
  (last'.op = "construct" /\ conf'.enabled /\ index.kind = "json")
    => cache' = Unexpired(index, now, conf'.ttl)

\* C21: the file holds the in-memory order as of the last set or delete; a
\* hit changes the order in memory and not the file.
C21_PersistStep ==
  /\ (up /\ conf.enabled /\ last'.op = "set" /\ last'.res = "ok")
       => index' = JsonDumpIndex(cache')
  /\ (up /\ conf.enabled /\ last'.op = "delete") => index' = JsonDumpIndex(cache')
  /\ (up /\ last'.op = "get" /\ last'.res = "hit") => index' = index

\* C21: a set directly after the construction that has to evict removes the
\* first unexpired entry of the persisted index.
C21_EvictStep ==
  (/\ last.op = "construct" /\ last'.op = "set"
   /\ conf.enabled /\ index.kind = "json"
   /\ cache # <<>> /\ Len(cache) >= conf.max_size)
    => LET victim == Head(Unexpired(index, now, conf.ttl)).key
       IN victim # KeyIn(last')
            => ~Has(cache', victim) /\ files'[victim].kind = "none"

\* C21: recency after a restart is the order of the persisted index, which is
\* the order in memory at the last persisted mutation without the hits made
\* since; the first eviction after the restart takes the first unexpired
\* entry of the persisted index.
C21_RecencyIsLoadOrder == [][C21_LoadStep /\ C21_PersistStep /\ C21_EvictStep]_vars

\* C21's case: a construction loaded two entries in the file's order into an
\* instance of max_size 2, so that the next set evicts.
C21_Witness ==
  /\ up /\ conf.enabled /\ conf.max_size = 2
  /\ last.op = "construct"
  /\ Len(cache) = 2 /\ cache = index.entries

\* key is in the in-memory index or in the persisted one.
Indexed(st, key) == Has(st.cache, key) \/ key \in PersistedKeys(st.index)

\* C22: a set of a key that is in neither index.  When the payload write
\* fails the key is in neither index afterwards.  Otherwise, at every
\* statement of the set, an index that holds the key finds its payload on
\* storage, the payload was there one statement earlier at least, and the
\* statements end in the state the set leaves.
C22_Step ==
  (up /\ conf.enabled /\ last'.op = "set" /\ ~Indexed(St, KeyIn(last')))
    => LET key == KeyIn(last')
           steps == SetSteps(St, conf, ReqIn(last'), last'.arg, now)
       IN IF last'.fault \in PutFaults
          THEN ~Indexed(StAfter, key)
          ELSE /\ steps[Len(steps)] = StAfter
               /\ \A i \in 1..Len(steps) :
                    Indexed(steps[i], key)
                      => /\ steps[i].files[key].kind = "pickle"
                         /\ i > 1
                         /\ steps[i - 1].files[key].kind = "pickle"

C22_PayloadBeforeIndex == [][C22_Step]_vars

\* C22's case: a set put a new key, after an eviction, into both indexes
\* with its payload on storage.
C22_Witness ==
  /\ up /\ conf.enabled /\ last.op = "set"
  /\ last.fault = "-" /\ ~last.had /\ last.res = "ok"
  /\ Len(last.sizes) = 3
  /\ Has(cache, KeyIn(last)) /\ KeyIn(last) \in PersistedKeys(index)
  /\ files[KeyIn(last)].kind = "pickle"

\* max(0, count - max_size + 1)
Excess(count, max_size) == IF count - max_size + 1 > 0 THEN count - max_size + 1 ELSE 0

\* C23: whatever max_size and the index are, the eviction loop of a set ends
\* without raising and has removed the first max(0, count - max_size + 1)
\* entries of the recency order with their payloads, and no other entry.
C23_Step ==
  (up /\ conf.enabled /\ last'.op = "set")
    => LET count == Len(cache)
           n == Excess(count, conf.max_size)
           key == KeyIn(last')
       IN /\ last'.res = "ok"
          /\ n <= count
          /\ \A i \in 1..count :
               cache[i].key # key
                 => IF i <= n
                    THEN ~Has(cache', cache[i].key) /\ files'[cache[i].key].kind = "none"
                    ELSE /\ Has(cache', cache[i].key)
                         /\ files'[cache[i].key] = files[cache[i].key]

C23_EvictionExact == [][C23_Step]_vars

\* The index file is no JSON, or one of its entries has no valid created_at.
Malformed(ix) ==
  \/ ix.kind = "garbage"
  \/ ix.kind = "json" /\ \E i \in 1..Len(ix.entries) : ~IsIso(ix.entries[i].created_at)

\* C24: the construction of an enabled instance on a malformed index file
\* leaves the in-memory index empty, whatever well-formed unexpired entries
\* the file lists.
C24_LoadStep ==
  (last'.op = "construct" /\ conf'.enabled /\ Malformed(index)) => cache' = <<>>

\* C24: with a malformed index file on disk, a set or a delete replaces it by
\* the in-memory index, and the key just set hits (ttl > 0, max_size >= 1).
C24_RecoverStep ==
  (up /\ conf.enabled /\ Malformed(index) /\ last'.op \in {"set", "delete"}
   /\ last'.res # "raised")
    => /\ index' = JsonDumpIndex(cache')
       /\ ~Malformed(index')
       /\ (last'.op = "set" /\ conf.ttl > 0)
            => /\ Answer(StAfter, conf, KeyIn(last'), now).res = "hit"
               /\ Answer(StAfter, conf, KeyIn(last'), now).val = last'.arg

C24_CorruptIndexRecovery == [][C24_LoadStep /\ C24_RecoverStep]_vars

\* C24's case: a construction on an index file whose second entry is
\* malformed and whose first entry is well-formed and unexpired loaded
\* nothing.
C24_Witness ==
  /\ up /\ conf.enabled /\ conf.ttl > 0
  /\ last.op = "construct"
  /\ index.kind = "json" /\ Len(index.entries) = 2
  /\ IsIso(index.entries[1].created_at) /\ ~IsIso(index.entries[2].created_at)
  /\ files[index.entries[1].key].kind = "pickle"
  /\ cache = <<>>

\* The entry at place i of the order is in the index after the step as it was
\* before, with its payload file.
Stays(i) ==
  /\ Has(cache', cache[i].key)
  /\ Lookup(cache', cache[i].key) = cache[i]
  /\ files'[cache[i].key] = files[cache[i].key]

\* C25: get and delete remove no entry but their own key's; get_stats and the
\* passing of time remove none; a set removes the first
\* max(0, count - max_size + 1) entries of the order and no other, whether
\* or not those, or any other entry, have expired.
C25_Step ==
  (up /\ conf.enabled)
    => /\ last'.op \in {"get", "delete"}
            => \A i \in 1..Len(cache) : cache[i].key # KeyIn(last') => Stays(i)
       /\ last'.op \in {"get_stats", "tick"} => cache' = cache /\ files' = files
       /\ (last'.op = "set" /\ last'.res = "ok")
            => \A i \in 1..Len(cache) :
                 cache[i].key # KeyIn(last')
                   => IF i <= Excess(Len(cache), conf.max_size)
                      THEN ~Has(cache', cache[i].key)
                      ELSE Stays(i)

C25_LazyExpiry == [][C25_Step]_vars

\* C25's case: a set of another key left an entry in the index that had
\* expired.
C25_Witness ==
  /\ up /\ conf.enabled /\ conf.ttl > 0
  /\ last.op = "set"
  /\ Len(cache) = 2
  /\ cache[1].key # KeyIn(last)
  /\ IsExpired(cache[1].created_at, now, conf.ttl)

\* C26: a hit changes no entry's metadata (the set of entries is the same
\* after it); only a set of its key changes an indexed key's created_at; and
\* a get of an indexed key at time >= created_at + ttl misses and removes it.
\* So an entry set at t0 and not set again misses from t0 + ttl on, whatever
\* hits it had.
C26_Step ==
  (up /\ conf.enabled)
    => /\ (last'.op = "get" /\ last'.res = "hit") => EntrySet(cache') = EntrySet(cache)
       /\ \A k \in KeysOf(cache) \cap KeysOf(cache') :
            ~(last'.op = "set" /\ KeyIn(last') = k)
              => Lookup(cache', k).created_at = Lookup(cache, k).created_at
       /\ (/\ last'.op = "get" /\ Has(cache, KeyIn(last'))
           /\ now >= FromIsoFormat(Lookup(cache, KeyIn(last')).created_at) + conf.ttl)
            => last'.res = "miss" /\ ~Has(cache', KeyIn(last'))

C26_HitKeepsAge == [][C26_Step]_vars

\* C26's case: an entry of age 1 was hit and moved from the head of the order
\* to its end with its created_at as set.
C26_Witness ==
  /\ up /\ conf.enabled /\ now = 1
  /\ last.op = "get" /\ last.res = "hit" /\ last.wasLru
  /\ Lookup(cache, KeyIn(last)).created_at = IsoFormat(0)

\* C27: a get of a key that is not in the index misses and changes nothing;
\* a get that hits leaves the entries (keys and metadata), the order of the
\* other entries among themselves, every payload file and the index file as
\* they were.
C27_Step ==
  last'.op = "get"
    => LET key == KeyIn(last')
       IN /\ ~Has(cache, key)
               => /\ last'.res = "miss"
                  /\ cache' = cache /\ files' = files /\ index' = index
          /\ last'.res = "hit"
               => /\ EntrySet(cache') = EntrySet(cache)
                  /\ Len(cache') = Len(cache)
                  /\ Others(cache', key) = Others(cache, key)
                  /\ files' = files /\ index' = index

C27_GetOnlyRecency == [][C27_Step]_vars

\* C27's case: a hit moved the least recently used of two entries to the end
\* of the order, and the index file still has the order from before.
C27_Witness ==
  /\ up /\ conf.enabled
  /\ last.op = "get" /\ last.res = "hit" /\ last.wasLru
  /\ index.kind = "json"
  /\ Len(cache) = 2 /\ index.entries = <<cache[2], cache[1]>>

\* C28: a set of a key that is in an index of exactly max_size entries, and is
\* not its least recently used one, evicts the least recently used entry with
\* its payload, replaces the key's payload and created_at, makes the key the
\* most recently used, keeps the others, and leaves max_size - 1 entries.
C28_Step ==
  (/\ up /\ conf.enabled /\ last'.op = "set"
   /\ Len(cache) = conf.max_size
   /\ Has(cache, KeyIn(last'))
   /\ Head(cache).key # KeyIn(last'))
    => LET key == KeyIn(last')
           lru == Head(cache).key
       IN /\ last'.res = "ok"
          /\ ~Has(cache', lru) /\ files'[lru].kind = "none"
          /\ Len(cache') = conf.max_size - 1
          /\ cache'[Len(cache')] = Entry(key, IsoFormat(now))
          /\ files'[key] = PickleDump(last'.arg, Ident(ReqIn(last')))
          /\ index' = JsonDumpIndex(cache')
          /\ \A i \in 2..Len(cache) : cache[i].key # key => Stays(i)

C28_SetExistingEvicts == [][C28_Step]_vars

\* C28's case: with max_size 2, a set of the more recently used of two
\* entries, made at time 0, at time 1 with the other payload: one entry is
\* left, made at time 1.
C28_Witness ==
  /\ up /\ conf.enabled /\ conf.max_size = 2 /\ now = 1
  /\ last.op = "set" /\ last.had /\ last.sizes = <<2, 1, 1>>
  /\ cache = <<Entry(KeyIn(last), IsoFormat(1))>>
  /\ files[KeyIn(last)].data = last.arg

\* The keys that have a payload file.
PayloadFiles == {k \in Keys : files[k].kind # "none"}

\* C29: one instance on a directory that was empty when it started, nothing
\* failing and nothing else writing: after every operation the payload files
\* on storage are those of the keys in the in-memory index.
C29_NoOrphans == up => PayloadFiles = KeysOf(cache)

\* C29's case: a set evicted an entry, and the two payload files on storage
\* are those of the two entries left.
C29_Witness ==
  /\ up /\ conf.enabled
  /\ last.op = "set" /\ last.sizes = <<2, 1, 2>>
  /\ Cardinality(PayloadFiles) = 2
  /\ PayloadFiles = KeysOf(cache)

\* Handler h is between the cache get that missed and its cache set.
InWindow(h) == handlers[h].kind = "process" /\ handlers[h].pc \in {"recognize", "set"}

\* The step is a cache call (get, set, clear or get_stats) of handler g.
CacheCallBy(g) ==
  /\ handlers'[g] # handlers[g]
  /\ \/ handlers[g].pc \in {"get", "set"} /\ ~handlers[g].waiting /\ handlers[g].use_cache
     \/ handlers'[g].kind \in {"clear", "stats"}

\* C30: while a handler is between its miss and its set, no other handler
\* makes a cache call.
C30_Step ==
  \A h \in Handlers, g \in Handlers : (InWindow(h) /\ g # h) => ~CacheCallBy(g)

\* C30: no two handlers are between miss and set together (whatever their
\* keys); a handler is at its set only after cache_manager.get gave no
\* result and the recognition gave one.
C30_Inv ==
  /\ \A h \in Handlers, g \in Handlers : (InWindow(h) /\ InWindow(g)) => g = h
  /\ \A h \in Handlers :
       handlers[h].pc = "set" => handlers[h].cached = "-" /\ handlers[h].result \in Payloads

\* C30: within one server process the handlers' cache accesses are
\* serialized between a request's get and its set.
C30_HandlersSerialized == []C30_Inv /\ [][C30_Step]_vars

\* C30's case: a handler has missed and is about to set while a second
\* request for the same key is waiting at its await.
C30_Witness ==
  /\ handlers[1].pc = "set" /\ handlers[1].use_cache
  /\ handlers[2].pc = "read" /\ handlers[2].waiting /\ handlers[2].use_cache
  /\ handlers[2].req = handlers[1].req

=============================================================================
